---- MODULE Spec2Model ----
(***************************************************************************)
(* A model of spark_ec2.py, the EC2 cluster lifecycle script: capacity     *)
(* partitioning, tag-based cluster discovery, security-group provisioning, *)
(* on-demand and spot launching, teardown and the health-check loop.       *)
(*                                                                         *)
(* Six specifications share the definitions below:                        *)
(*   SpecPartition  get_partition over bounded inputs                      *)
(*   SpecDiscover   get_existing_cluster over arbitrary provider states    *)
(*   SpecHealth     wait_for_spark_cluster, check by check                 *)
(*   SpecTeardown   destroy invoked on an account that holds instances     *)
(*   SpecDeploy     deploy_files on one template file                      *)
(*   Spec           successive invocations of main() (launch, destroy,     *)
(*                  stop, start, copy-data) against one provider account   *)
(***************************************************************************)
EXTENDS Integers, Sequences, FiniteSets, TLC

VARIABLES
  \* ---- SpecPartition: the zone loop around get_partition ----
  p_total,      \* opts.slaves
  p_zones,      \* num_zones = len(zones)
  p_counts,     \* num_slaves_this_zone for the zones visited so far
  \* ---- SpecDiscover: one call of get_existing_cluster ----
  d_insts,      \* what conn.get_all_instances() returns, flattened
  d_pc,         \* "idle" | "returned" | "returned_twice" | "exit"
  d_name,       \* cluster_name of the call
  d_die,        \* die_on_error of the call
  d_found,      \* (master_nodes, slave_nodes, zoo_nodes) as index sequences
  d_exit,       \* status passed to sys.exit, -1 when it was not called
  d_again,      \* what a second call with the same arguments returned
  \* ---- Spec: the provider account ----
  insts,        \* every instance of the account, in reservation order
  groups,       \* security groups: name -> list of authorized rules
  spot_reqs,    \* spot instance requests: id -> [state, inst]
  \* ---- Spec: the invocation of main() in progress ----
  invocations,  \* invocations started so far
  faults,       \* provider/remote failures and interrupts injected so far
  action,       \* "launch" | "destroy" | "stop" | "start" | "copy-data" | "none"
  cluster_name,
  opts,         \* the parsed options the action reads
  pc,           \* position in main()/launch_cluster()
  exit_status,  \* the process's exit status, -1 while it runs
  raised,       \* TRUE when the process ended by an uncaught exception
  loc,          \* local variables of main() and launch_cluster()
  obs,          \* what the invocation did, recorded for the properties
  \* ---- SpecHealth: one call of wait_for_spark_cluster ----
  h_opts,       \* opts.instance_type and opts.slaves
  h_pc,         \* "first_check" | "stop" | "start" | "recheck" | "returned" | "raised"
  h_err,        \* err
  h_count,      \* count
  h_tries,      \* tries of the ssh call in progress
  h_obs,        \* checks made, stop-all and start-all runs completed, first result
  \* ---- SpecDeploy: one call of deploy_files on a tree of one template ----
  t_text,       \* the template file's text, a sequence of characters
  t_vars,       \* template_vars: key -> value
  t_order,      \* the order in which "for key in template_vars" visits the keys
  t_pc,         \* "start" | "render" | "rsync" | "rmtree" | "returned" | "raised"
  t_out,        \* the text written under tmp_dir
  t_tmp,        \* tmp_dir: "none" | "exists" | "removed"
  \* ---- SpecConcurrent: launch invocations running at the same time ----
  launches      \* per invocation: its position and locals in lines 177-213

partVars == <<p_total, p_zones, p_counts>>
discVars == <<d_insts, d_pc, d_name, d_die, d_found, d_exit, d_again>>
provVars == <<insts, groups, spot_reqs>>
procVars == <<invocations, faults, action, cluster_name, opts, pc, exit_status, raised, loc, obs>>
mainVars == <<provVars, procVars>>
healthVars == <<h_opts, h_pc, h_err, h_count, h_tries, h_obs>>
deployVars == <<t_text, t_vars, t_order, t_pc, t_out, t_tmp>>
concVars == <<launches>>
vars == <<partVars, discVars, mainVars, healthVars, deployVars, concVars>>

(***************************************************************************)
(* Bounds of the model.                                                    *)
(***************************************************************************)
MaxTotal == 7
MaxZones == 4
MaxDInst == 2
MaxInvocations == 2
MaxSlaves == 2
MaxFaults == 1
NumZones == 2
MaxCores == 4
MaxTokens == 3

(***************************************************************************)
(* get_partition (Capacity Partitioner).  Python 2 integer / and % on      *)
(* non-negative operands are floor division and remainder.                 *)
(***************************************************************************)
get_partition_first_zone_only(total, num_partitions, current_partitions) ==
  (total \div num_partitions) +
    (IF (total % num_partitions) > 0 /\ current_partitions = 0 THEN 1 ELSE 0)

get_partition_remainder_shifted(total, num_partitions, current_partitions) ==
  (total \div num_partitions) +
    (IF (total % num_partitions) - current_partitions >= 0 THEN 1 ELSE 0)

get_partition(total, num_partitions, current_partitions) ==
  LET num_slaves_this_zone == total \div num_partitions
  IN  IF (total % num_partitions) - current_partitions > 0
        THEN num_slaves_this_zone + 1
        ELSE num_slaves_this_zone

RECURSIVE SumSeq(_)
SumSeq(s) == IF s = <<>> THEN 0 ELSE Head(s) + SumSeq(Tail(s))

(***************************************************************************)
(* Cluster discovery.  An instance is a record                             *)
(*   [res, state, cluster, type]                                           *)
(* res is its reservation, cluster and type its tags (NoTag: key absent).  *)
(***************************************************************************)
NoTag == "-"
ClusterNames == {"ampcamp3", "demo"}
Roles == {"master", "slave", "zoo"}
States == {"pending", "running", "stopping", "stopped", "shutting-down", "terminated"}

is_active(state) == state \in {"pending", "running", "stopping", "stopped"}

\* active = [i for i in res.instances if is_active(i)]; len(active) > 0
ReservationActive(all, r) ==
  \E j \in 1..Len(all) : all[j].res = r /\ is_active(all[j].state)

\* the tag tests of lines 374-382 for one role
MatchesRoleOnly(inst, name, type) == inst.type = type

Matches(inst, name, type) ==
  /\ inst.cluster # NoTag
  /\ inst.type # NoTag
  /\ inst.cluster = name
  /\ inst.type = type

RECURSIVE SelectIdx(_, _, _, _)
SelectIdx(all, name, type, k) ==
  IF k > Len(all) THEN <<>>
  ELSE (IF ReservationActive(all, all[k].res) /\ Matches(all[k], name, type)
          THEN <<k>> ELSE <<>>)
       \o SelectIdx(all, name, type, k + 1)

\* the three lists get_existing_cluster builds, as indices into all
get_existing_cluster(all, name) ==
  [master |-> SelectIdx(all, name, "master", 1),
   slave  |-> SelectIdx(all, name, "slave", 1),
   zoo    |-> SelectIdx(all, name, "zoo", 1)]

NoneFound == [master |-> <<>>, slave |-> <<>>, zoo |-> <<>>]

\* any((master_nodes, slave_nodes, zoo_nodes))
AnyMasters(found) == found.master # <<>>

AnyNodes(found) == found.master # <<>> \/ found.slave # <<>> \/ found.zoo # <<>>

\* line 387: the call returns; otherwise it prints an error and exits 1
DiscoveryReturnsAnyRole(found, die_on_error) ==
  (found.master # <<>> \/ found.slave # <<>>) \/ ~die_on_error

DiscoveryReturns(found, die_on_error) ==
  (found.master # <<>> /\ found.slave # <<>>) \/ ~die_on_error

(***************************************************************************)
(* Security groups.  A group's rules are the list of permissions that were *)
(* authorized on it, in call order.  launch_cluster uses three fixed group *)
(* names; destroy targets cluster_name + "-master"/"-slaves"/"-zoo".       *)
(***************************************************************************)
LaunchGroupNames == <<"ampcamp3-master", "ampcamp3-slaves", "ampcamp3-zoo">>
GroupSuffixes == <<"-master", "-slaves", "-zoo">>

FromGroup(g) == [proto |-> "all", from |-> 0, to |-> 65535, src |-> g]
Tcp(from_port, to_port) ==
  [proto |-> "tcp", from |-> from_port, to |-> to_port, src |-> "0.0.0.0/0"]

\* opts.ganglia: action="store_true" with default=True, so always True
Ganglia == TRUE

\* lines 181-194
MasterAuthorizeCalls ==
  << FromGroup("ampcamp3-master"), FromGroup("ampcamp3-slaves"), FromGroup("ampcamp3-zoo"),
     Tcp(22, 22), Tcp(8080, 8081), Tcp(50030, 50030), Tcp(50070, 50070),
     Tcp(60070, 60070), Tcp(33000, 33010), Tcp(3030, 3040), Tcp(5050, 5050),
     Tcp(38090, 38090) >>
  \o (IF Ganglia THEN << Tcp(5080, 5080) >> ELSE <<>>)

\* lines 196-205
SlaveAuthorizeCalls ==
  << FromGroup("ampcamp3-master"), FromGroup("ampcamp3-slaves"), FromGroup("ampcamp3-zoo"),
     Tcp(22, 22), Tcp(8080, 8081), Tcp(50060, 50060), Tcp(50075, 50075),
     Tcp(60060, 60060), Tcp(60075, 60075), Tcp(5051, 5051) >>

\* lines 207-213
ZooAuthorizeCalls ==
  << FromGroup("ampcamp3-master"), FromGroup("ampcamp3-slaves"), FromGroup("ampcamp3-zoo"),
     Tcp(22, 22), Tcp(2181, 2181), Tcp(2888, 2888), Tcp(3888, 3888) >>

AuthorizeCalls(gi) ==
  CASE gi = 1 -> MasterAuthorizeCalls
    [] gi = 2 -> SlaveAuthorizeCalls
    [] gi = 3 -> ZooAuthorizeCalls

\* line 795: while attempt <= 3
MaxAttempts == 3

\* "if master_group.rules == []": the gate reads the group object fetched by
\* get_or_make_group, not the provider
GateAlwaysOpen(group_rules) == TRUE

GateOpen(group_rules) == group_rules = <<>>

NoGroups == [name \in {} |-> <<>>]

\* how often permission r occurs in a rule list
Occurrences(rules, r) == Cardinality({k \in 1..Len(rules) : rules[k] = r})

(***************************************************************************)
(* Instances and reservations                                              *)
(***************************************************************************)
NewInstance(res) == [res |-> res, state |-> "pending", cluster |-> NoTag, type |-> NoTag]

NextReservation(all) ==
  IF all = <<>> THEN 1 ELSE all[Len(all)].res + 1

\* image.run(min_count = n, max_count = n): one reservation of n instances
RunInstances(all, n) ==
  all \o [k \in 1..n |-> NewInstance(NextReservation(all))]

\* conn.create_tags([node.id], tags)
CreateTags(all, k, name, type) ==
  [all EXCEPT ![k].cluster = name, ![k].type = type]

\* inst.terminate() on every node of the list
RECURSIVE TerminateAll(_, _)
TerminateAll(all, nodes) ==
  IF nodes = <<>> THEN all
  ELSE TerminateAll(
         [all EXCEPT ![Head(nodes)].state =
            IF @ = "terminated" THEN "terminated" ELSE "shutting-down"],
         Tail(nodes))

\* get_zones: every zone of the region for --zone all, else the one zone
get_zones(o) == IF o.zone_all THEN [z \in 1..NumZones |-> z] ELSE <<1>>

RangeOf(s) == {s[k] : k \in 1..Len(s)}

(***************************************************************************)
(* The process: options, locals, and what an invocation is seen to do.     *)
(***************************************************************************)
DefaultOpts ==
  [slaves |-> 0, zone_all |-> FALSE, spot |-> FALSE, resume |-> FALSE,
   delete_groups |-> FALSE, destroy_noprompt |-> FALSE, copy |-> FALSE]

\* the option values an action reads; the others keep their default
OptionSets(a) ==
  IF a = "launch"
    THEN [slaves : 0..MaxSlaves, zone_all : BOOLEAN, spot : BOOLEAN, resume : {FALSE},
          delete_groups : {FALSE}, destroy_noprompt : {FALSE}, copy : BOOLEAN]
         \cup {[DefaultOpts EXCEPT !.resume = TRUE]}
  ELSE IF a = "destroy"
    THEN [slaves : {0}, zone_all : {FALSE}, spot : {FALSE}, resume : {FALSE},
          delete_groups : BOOLEAN, destroy_noprompt : BOOLEAN, copy : {FALSE}]
  ELSE IF a = "start"
    THEN {DefaultOpts, [DefaultOpts EXCEPT !.copy = TRUE]}
    ELSE {DefaultOpts}

LocInit ==
  [gi |-> 1,                      \* which of master_group, slave_group, zoo_group
   ri |-> 1,                      \* next authorize call of that group
   group_rules |-> << <<>>, <<>>, <<>> >>,  \* .rules of the three fetched group objects
   i |-> 0,                       \* zone counter of the launch loops
   my_req_ids |-> <<>>,
   master_nodes |-> <<>>,
   slave_nodes |-> <<>>,
   zoo_nodes |-> <<>>,
   tagged |-> 0,                  \* slave_nodes already tagged
   del_groups |-> <<>>,           \* groups of the current deletion attempt
   attempt |-> 1,
   success |-> TRUE]

\* what is kept of an invocation once the next one starts: the cluster name
\* and "returned" when its launch_cluster returned, "raised" when its
\* on-demand launch_cluster raised after image.run had returned instances
NoPrevious == [name |-> "", outcome |-> "none"]

ObsInit ==
  [collision |-> FALSE,           \* an active node tagged with the name existed at the start
   all_down |-> FALSE,            \* nodes tagged with the name existed, none of them active
   tagged_before |-> FALSE,       \* any node tagged with the name existed at the start
   get_or_make |-> <<0, 0, 0>>,   \* calls of get_or_make_group per group
   gate |-> <<"unchecked", "unchecked", "unchecked">>,  \* the provider's rule set at the gate
   auth_calls |-> <<0, 0, 0>>,    \* authorize calls issued per group
   runs |-> <<>>,                 \* min_count/max_count of each slave image.run
   master_runs |-> 0,
   bids |-> <<>>,                 \* count of each request_spot_instances
   batch |-> <<>>,                \* ids of the requests the provider made for them
   granted_seen |-> 0,            \* len(active_instance_ids) at the last poll
   longer |-> 0,                  \* "waiting longer" lines printed so far, modulo 2
   interrupted |-> FALSE,         \* the polling loop was left through "except:"
   cancel_calls |-> 0,
   cancelled |-> <<>>,            \* the ids the cancel call was given
   granted_at_cancel |-> 0,       \* requests of the batch that were active at the cancel
   warned |-> 0,                  \* the count of the WARNING line, 0 when none was printed
   terminate_calls |-> 0,
   launched |-> FALSE,            \* launch_cluster returned
   stop_calls |-> 0,
   start_calls |-> 0,
   revoke_phases |-> 0,           \* passes of the revoke loop (lines 801-808)
   delete_calls |-> 0,
   prompted |-> FALSE,            \* raw_input was called
   response |-> "none",           \* the value of response, "none" while unset
   found_nodes |-> -1,            \* nodes the action's discovery returned, -1 before it
   health_err |-> 0,              \* what wait_for_spark_cluster returned
   copy_started |-> FALSE,        \* copy_ampcamp_data_from_ebs was entered
   success_msg |-> FALSE,         \* the SUCCESS line was printed
   attempts |-> 0,                \* deletion attempts begun (lines 796-797)
   attempt_ok |-> <<>>,           \* per finished attempt: every revoke and delete succeeded
   failure |-> "none",            \* convergence failure met: "spot", "health" or "groups"
   down_at_failure |-> 0,         \* instances shutting down or terminated when it was met
   discovered |-> FALSE,          \* get_existing_cluster was called by this invocation
   early |-> {},                  \* kinds of provider-mutating calls issued before that
   waited |-> FALSE,              \* wait_for_cluster returned
   setup_started |-> FALSE,       \* setup_cluster was entered
   setup_on |-> {},               \* states of the nodes handed to setup_cluster
   health_on |-> {},              \* states of the nodes handed to wait_for_spark_cluster
   prev |-> NoPrevious]           \* the launch before this invocation, if it was one

MainIdle ==
  /\ insts = <<>> /\ groups = NoGroups /\ spot_reqs = <<>>
  /\ invocations = 0 /\ faults = 0 /\ action = "none" /\ cluster_name = "demo"
  /\ opts = DefaultOpts /\ pc = "idle" /\ exit_status = -1 /\ raised = FALSE
  /\ loc = LocInit /\ obs = ObsInit

(***************************************************************************)
(* The health check (lines 431-462, 594-615, 692-705, 723-734)             *)
(***************************************************************************)
InstanceTypes == {"m1.small", "m1.xlarge", "m3.medium"}

\* get_num_cpus: the table, 2 for a type it does not list
get_num_cpus(instance_type) ==
  CASE instance_type = "m1.small" -> 1
    [] instance_type = "m1.large" -> 2
    [] instance_type = "m1.xlarge" -> 4
    [] instance_type = "t1.micro" -> 1
    [] instance_type = "c1.medium" -> 2
    [] instance_type = "c1.xlarge" -> 8
    [] instance_type = "m2.xlarge" -> 2
    [] instance_type = "m2.2xlarge" -> 4
    [] instance_type = "m2.4xlarge" -> 8
    [] instance_type = "cc1.4xlarge" -> 8
    [] instance_type = "cc2.8xlarge" -> 16
    [] instance_type = "cg1.4xlarge" -> 8
    [] OTHER -> 2

\* What the status endpoint can answer to urllib2.urlopen(url):
\*   "refused"     the connection fails (URLError)
\*   "http_error"  an error status, which urlopen raises as HTTPError
\*   "not_200"     a response whose code is not 200
\*   "not_json"    200 with a body json.loads rejects (ValueError)
\*   "no_cores"    200 with JSON that has no "cores" (int(None): TypeError)
\*   "cores"       200 with JSON whose "cores" is the number n
Answers ==
  [kind : {"refused", "http_error", "not_200", "not_json", "no_cores"}, n : {0}]
  \cup [kind : {"cores"}, n : 0..MaxCores]

\* check_spark_json on a body that parses
check_spark_json(got_num_cpus, o) ==
  LET num_cpus_per_slave == get_num_cpus(o.instance_type)
      expected_num_cpus == num_cpus_per_slave * o.slaves
  IN  IF got_num_cpus = expected_num_cpus THEN 0 ELSE -1

Returns(v) == [raised |-> FALSE, value |-> v]
Raises == [raised |-> TRUE, value |-> 0]

\* check_spark_cluster: the value it returns, or the exception that leaves
\* it ("except NameError" catches none of URLError, HTTPError, ValueError,
\* TypeError)
check_spark_cluster(answer, o) ==
  CASE answer.kind \in {"refused", "http_error"} -> Raises
    [] answer.kind = "not_200" -> Returns(-1)
    [] answer.kind \in {"not_json", "no_cores"} -> Raises
    [] answer.kind = "cores" -> Returns(check_spark_json(answer.n, o))

\* line 727: while err != 0 and count < 10
MaxCycles == 10
LoopsWithoutBound(err, count) == err # 0

Loops(err, count) == err # 0 /\ count < MaxCycles

\* line 701: a failed ssh is retried unless tries > 2
MaxRetries == 3
NeverGivesUp(tries) == FALSE

GivesUp(tries) == tries > MaxRetries - 1

HealthObsInit ==
  [checks |-> 0, stops |-> 0, starts |-> 0, first |-> "none", healthy |-> 0,
   answer |-> "none",   \* what the endpoint answered to the last check
   cores |-> 0,         \* the cores it reported, when it reported any
   result |-> "none",   \* how the last check_spark_cluster ended
   ssh |-> "none",      \* the last ssh call: "running", "returned" or "raised"
   execs |-> 0,         \* executions of the command made by that call
   pauses |-> 0]        \* time.sleep(30) made by that call

HealthIdle ==
  /\ h_opts = [instance_type |-> "m1.small", slaves |-> 0]
  /\ h_pc = "idle" /\ h_err = 0 /\ h_count = 0 /\ h_tries = 0
  /\ h_obs = HealthObsInit

(***************************************************************************)
(* deploy_files (lines 622-682): the template text is a sequence of        *)
(* characters, a placeholder is the five characters {{k}} for a key k.     *)
(***************************************************************************)
Keys == {"a", "b"}

\* "{{" + key + "}}"
Pattern(key) == <<"{", "{", key, "}", "}">>

StartsWith(text, pat) == Len(text) >= Len(pat) /\ SubSeq(text, 1, Len(pat)) = pat

Rest(text, n) == SubSeq(text, n + 1, Len(text))

\* text.replace(pat, val): every occurrence, found from the left, without
\* overlap
RECURSIVE ReplaceFirstOnly(_, _, _)
ReplaceFirstOnly(text, pat, val) ==
  IF text = <<>> THEN <<>>
  ELSE IF StartsWith(text, pat) THEN val \o Rest(text, Len(pat))
  ELSE <<Head(text)>> \o ReplaceFirstOnly(Tail(text), pat, val)

RECURSIVE Replace(_, _, _)
Replace(text, pat, val) ==
  IF text = <<>> THEN <<>>
  ELSE IF StartsWith(text, pat) THEN val \o Replace(Rest(text, Len(pat)), pat, val)
  ELSE <<Head(text)>> \o Replace(Tail(text), pat, val)

\* lines 672-674: for key in template_vars: text = text.replace(...)
RECURSIVE Render(_, _, _)
Render(text, tvars, order) ==
  IF order = <<>> THEN text
  ELSE Render(Replace(text, Pattern(Head(order)), tvars[Head(order)]), tvars, Tail(order))

\* the pieces the template texts are made of: placeholders of the two keys
\* and of a name that is no key, plain text, and loose braces
Tokens ==
  {Pattern("a"), Pattern("b"), Pattern("u"), <<"x">>, <<"{", "{">>,
   <<"b", "}", "}">>, <<"}">>}

RECURSIVE Texts(_)
Texts(n) ==
  IF n = 0 THEN {<<>>}
  ELSE LET shorter == Texts(n - 1)
       IN  shorter \cup {t \o tok : t \in shorter, tok \in Tokens}

\* values as deploy_files builds them: no braces; slave_list is empty for a
\* cluster without slaves
ValueMaps == [Keys -> {<<>>, <<"v">>}]

KeyOrders == {<<"a", "b">>, <<"b", "a">>}

DeployIdle ==
  /\ t_text = <<>> /\ t_vars = [k \in Keys |-> <<>>] /\ t_order = <<"a", "b">>
  /\ t_pc = "idle" /\ t_out = <<>> /\ t_tmp = "none"

(***************************************************************************)
(* SpecPartition                                                           *)
(***************************************************************************)
(***************************************************************************)
(* Launch invocations running at the same time on one account, each in the *)
(* security-group block of launch_cluster (lines 177-213).                 *)
(***************************************************************************)
NumLaunches == 2

Launches == 1..NumLaunches

\* an invocation that has entered launch_cluster
LaunchEntered ==
  [pc |-> "get_groups",                      \* "get_groups" | "gate" | "authorize" | "done"
   gi |-> 1,                                 \* which of the three groups
   group_rules |-> << <<>>, <<>>, <<>> >>,   \* .rules of the fetched group objects
   authorized |-> {}]                        \* groups it issued the authorize calls of

ConcIdle == launches = [p \in Launches |-> LaunchEntered]

PartIdle == /\ p_total = 0 /\ p_zones = 1 /\ p_counts = <<>>
DiscIdle ==
  /\ d_insts = <<>> /\ d_pc = "idle" /\ d_name = "demo" /\ d_die = FALSE
  /\ d_found = NoneFound /\ d_exit = -1 /\ d_again = NoneFound

InitPartition ==
  /\ p_total \in 0..MaxTotal
  /\ p_zones \in 1..MaxZones
  /\ p_counts = <<>>
  /\ DiscIdle
  /\ MainIdle
  /\ HealthIdle
  /\ ConcIdle
  /\ DeployIdle

\* one iteration of "for zone in zones": i is the number of zones done
PartitionZone ==
  /\ Len(p_counts) < p_zones
  /\ p_counts' = Append(p_counts, get_partition(p_total, p_zones, Len(p_counts)))
  /\ UNCHANGED <<p_total, p_zones, discVars, mainVars, healthVars, deployVars, concVars>>

NextPartition == PartitionZone

SpecPartition == InitPartition /\ [][NextPartition]_vars

(***************************************************************************)
(* SpecDiscover                                                            *)
(***************************************************************************)
TagShapes ==
  {[cluster |-> NoTag, type |-> NoTag]} \cup
  [cluster : ClusterNames, type : {NoTag}] \cup
  [cluster : {NoTag}, type : Roles] \cup
  [cluster : ClusterNames, type : Roles]

InstanceShapes ==
  {[res |-> r, state |-> s, cluster |-> t.cluster, type |-> t.type] :
     r \in 1..2, s \in States, t \in TagShapes}

InitDiscover ==
  /\ \E n \in 0..MaxDInst : d_insts \in [1..n -> InstanceShapes]
  /\ d_pc = "idle" /\ d_name = "demo" /\ d_die = FALSE
  /\ d_found = NoneFound /\ d_exit = -1 /\ d_again = NoneFound
  /\ PartIdle
  /\ MainIdle
  /\ HealthIdle
  /\ ConcIdle
  /\ DeployIdle

Discover ==
  /\ d_pc = "idle"
  /\ \E name \in ClusterNames, die \in BOOLEAN :
       LET found == get_existing_cluster(d_insts, name)
       IN  /\ d_name' = name
           /\ d_die' = die
           /\ IF DiscoveryReturns(found, die)
                THEN d_pc' = "returned" /\ d_found' = found /\ d_exit' = -1
                ELSE d_pc' = "exit" /\ d_found' = NoneFound /\ d_exit' = 1
  /\ UNCHANGED <<d_insts, d_again, partVars, mainVars, healthVars, deployVars, concVars>>

\* the same call once more, nothing having touched the account
DiscoverAgain ==
  /\ d_pc = "returned"
  /\ LET found == get_existing_cluster(d_insts, d_name)
     IN  IF DiscoveryReturns(found, d_die)
           THEN d_pc' = "returned_twice" /\ d_again' = found /\ d_exit' = -1
           ELSE d_pc' = "exit" /\ d_again' = NoneFound /\ d_exit' = 1
  /\ UNCHANGED <<d_insts, d_name, d_die, d_found, partVars, mainVars, healthVars,
                 deployVars, concVars>>

NextDiscover == Discover \/ DiscoverAgain

SpecDiscover == InitDiscover /\ [][NextDiscover]_vars

(***************************************************************************)
(* SpecDeploy: deploy_files from tempfile.mkdtemp() to its end             *)
(***************************************************************************)
InitDeploy ==
  /\ t_text \in Texts(MaxTokens)
  /\ t_vars \in ValueMaps
  /\ t_order \in KeyOrders
  /\ t_pc = "start" /\ t_out = <<>> /\ t_tmp = "none"
  /\ PartIdle
  /\ DiscIdle
  /\ MainIdle
  /\ HealthIdle
  /\ ConcIdle

NotDeploy == UNCHANGED <<partVars, discVars, mainVars, healthVars, concVars>>

\* line 659: tmp_dir = tempfile.mkdtemp()
MakeTmp ==
  /\ t_pc = "start"
  /\ t_tmp' = "exists"
  /\ t_pc' = "render"
  /\ UNCHANGED <<t_text, t_vars, t_order, t_out>>
  /\ NotDeploy

\* lines 660-676: the file is read, rendered and written under tmp_dir
RenderFile ==
  /\ t_pc = "render"
  /\ t_out' = Render(t_text, t_vars, t_order)
  /\ t_pc' = "rsync"
  /\ UNCHANGED <<t_text, t_vars, t_order, t_tmp>>
  /\ NotDeploy

\* line 680: rsync exits with status 0
RsyncRuns ==
  /\ t_pc = "rsync"
  /\ t_pc' = "rmtree"
  /\ UNCHANGED <<t_text, t_vars, t_order, t_out, t_tmp>>
  /\ NotDeploy

\* line 680: rsync exits with another status, check_call raises
\* CalledProcessError and nothing in deploy_files catches it
RsyncFails ==
  /\ t_pc = "rsync"
  /\ t_pc' = "raised"
  /\ UNCHANGED <<t_text, t_vars, t_order, t_out, t_tmp>>
  /\ NotDeploy

\* line 682: shutil.rmtree(tmp_dir)
RemoveTmp ==
  /\ t_pc = "rmtree"
  /\ t_tmp' = "removed"
  /\ t_pc' = "returned"
  /\ UNCHANGED <<t_text, t_vars, t_order, t_out>>
  /\ NotDeploy

NextDeploy == MakeTmp \/ RenderFile \/ RsyncRuns \/ RsyncFails \/ RemoveTmp

SpecDeploy == InitDeploy /\ [][NextDeploy]_vars

(***************************************************************************)
(* Spec: invocations of main(), one after the other, on one account.       *)
(***************************************************************************)
Init ==
  /\ MainIdle
  /\ PartIdle
  /\ DiscIdle
  /\ HealthIdle
  /\ ConcIdle
  /\ DeployIdle

NotMain == UNCHANGED <<partVars, discVars, healthVars, deployVars, concVars>>

\* sys.exit(status), the end of main(), or an uncaught exception (status 1)
Exit(status, by_exception) ==
  /\ pc' = "done"
  /\ exit_status' = status
  /\ raised' = by_exception
  /\ loc' = LocInit

ActiveTagged(all, name) ==
  \E k \in 1..Len(all) :
    is_active(all[k].state) /\ all[k].cluster = name /\ all[k].type \in Roles

\* the cluster has nodes, each shutting down or terminated
DownTagged(all, name) ==
  \E k \in 1..Len(all) :
    ~is_active(all[k].state) /\ all[k].cluster = name /\ all[k].type \in Roles

AllDown(all, name) == DownTagged(all, name) /\ ~ActiveTagged(all, name)

\* the launch_cluster call of the invocation that has just ended, as the
\* next invocation's record keeps it
Previous ==
  IF action = "launch" /\ ~opts.resume /\ obs.launched
    THEN [name |-> cluster_name, outcome |-> "returned"]
    ELSE IF action = "launch" /\ ~opts.spot /\ raised
            /\ SumSeq(obs.runs) + obs.master_runs > 0
      THEN [name |-> cluster_name, outcome |-> "raised"]
      ELSE NoPrevious

\* a provider-mutating call of the given kind, noted when no discovery came first
Early(o, kind) == IF o.discovered THEN o.early ELSE o.early \cup {kind}

\* the states of the nodes of the three lists
StatesOf(all, l) ==
  {all[k].state : k \in RangeOf(l.master_nodes \o l.slave_nodes \o l.zoo_nodes)}

\* the actions of main() that are followed
Actions == {"launch", "destroy", "stop", "start", "copy-data"}

\* main() up to the dispatch on action (lines 736-748, 767, 846, 857, 880)
Start ==
  /\ pc \in {"idle", "done"}
  /\ invocations < MaxInvocations
  /\ invocations' = invocations + 1
  /\ \E a \in Actions, name \in ClusterNames :
       \E o \in OptionSets(a) :
         /\ action' = a
         /\ cluster_name' = name
         /\ opts' = o
         /\ pc' = CASE a = "destroy" -> "confirm"
                    [] a = "stop" -> "confirm_stop"
                    [] a = "start" -> "start_nodes"
                    [] a = "copy-data" -> "discover_copy"
                    [] a = "launch" -> IF o.resume THEN "resume" ELSE "get_groups"
         /\ obs' = [ObsInit EXCEPT
                      !.collision = ActiveTagged(insts, name),
                      !.all_down = AllDown(insts, name),
                      !.tagged_before = \E k \in 1..Len(insts) : insts[k].cluster = name,
                      !.prev = Previous]
  /\ exit_status' = -1
  /\ raised' = FALSE
  /\ loc' = LocInit
  /\ UNCHANGED <<provVars, faults>>
  /\ NotMain

\* get_or_make_group: the group of that name, created when there is none
get_or_make_group(gs, name) ==
  IF name \in DOMAIN gs THEN gs ELSE (name :> <<>>) @@ gs

\* lines 177-179, one call per step
GetOrMakeGroup ==
  /\ pc = "get_groups"
  /\ LET name == LaunchGroupNames[loc.gi]
     IN  /\ groups' = get_or_make_group(groups, name)
         /\ loc' = [loc EXCEPT !.group_rules[loc.gi] = groups'[name],
                               !.gi = IF loc.gi = 3 THEN 1 ELSE loc.gi + 1]
         /\ obs' = [obs EXCEPT !.get_or_make[loc.gi] = @ + 1,
                               !.early = IF name \in DOMAIN groups
                                           THEN @ ELSE Early(obs, "create_group")]
         /\ pc' = IF loc.gi = 3 THEN "gate" ELSE "get_groups"
  /\ UNCHANGED <<insts, spot_reqs, invocations, faults, action, cluster_name, opts,
                 exit_status, raised>>
  /\ NotMain

\* after the last authorize call of a group, or a closed gate
AfterGroup(l) ==
  IF l.gi = 3 THEN [l EXCEPT !.gi = 1, !.ri = 1] ELSE [l EXCEPT !.gi = @ + 1, !.ri = 1]

PcAfterGroupSkipsDiscovery(l) == IF l.gi = 3 THEN "find_image" ELSE "gate"

\* line 216 follows the zoo group's block, line 195 or 206 the others'
PcAfterGroup(l) == IF l.gi = 3 THEN "check_existing" ELSE "gate"

\* lines 180, 195, 206
CheckGate ==
  /\ pc = "gate"
  /\ obs' = [obs EXCEPT !.gate[loc.gi] =
               IF groups[LaunchGroupNames[loc.gi]] = <<>> THEN "empty" ELSE "nonempty"]
  /\ IF GateOpen(loc.group_rules[loc.gi])
       THEN pc' = "authorize" /\ loc' = [loc EXCEPT !.ri = 1]
       ELSE pc' = PcAfterGroup(loc) /\ loc' = AfterGroup(loc)
  /\ UNCHANGED <<provVars, invocations, faults, action, cluster_name, opts,
                 exit_status, raised>>
  /\ NotMain

\* one group.authorize(...) call of lines 181-213
Authorize ==
  /\ pc = "authorize"
  /\ LET name == LaunchGroupNames[loc.gi]
         calls == AuthorizeCalls(loc.gi)
     IN  /\ groups' = [groups EXCEPT ![name] = Append(@, calls[loc.ri])]
         /\ obs' = [obs EXCEPT !.auth_calls[loc.gi] = @ + 1,
                               !.early = Early(obs, "authorize")]
         /\ IF loc.ri = Len(calls)
              THEN pc' = PcAfterGroup(loc) /\ loc' = AfterGroup(loc)
              ELSE pc' = "authorize" /\ loc' = [loc EXCEPT !.ri = @ + 1]
  /\ UNCHANGED <<insts, spot_reqs, invocations, faults, action, cluster_name, opts,
                 exit_status, raised>>
  /\ NotMain

\* the provider rejects the call: EC2ResponseError, caught nowhere
AuthorizeRaises ==
  /\ pc = "authorize"
  /\ faults < MaxFaults
  /\ faults' = faults + 1
  /\ Exit(1, TRUE)
  /\ UNCHANGED <<provVars, invocations, action, cluster_name, opts, obs>>
  /\ NotMain

\* lines 215-221
CheckExisting ==
  /\ pc = "check_existing"
  /\ LET active_nodes == get_existing_cluster(insts, cluster_name)
     IN  IF AnyNodes(active_nodes)
           THEN Exit(1, FALSE)
           ELSE pc' = "find_image" /\ UNCHANGED <<exit_status, raised, loc>>
  /\ obs' = [obs EXCEPT !.discovered = TRUE]
  /\ UNCHANGED <<provVars, invocations, faults, action, cluster_name, opts>>
  /\ NotMain

\* lines 223-238: the AMI is resolved
FindImage ==
  /\ pc = "find_image"
  /\ pc' = IF opts.spot THEN "spot_request" ELSE "run_slaves"
  /\ loc' = [loc EXCEPT !.i = 0]
  /\ UNCHANGED <<provVars, invocations, faults, action, cluster_name, opts,
                 exit_status, raised, obs>>
  /\ NotMain

\* lines 228-230, 236-238: the URL or the AMI cannot be read
FindImageFails ==
  /\ pc = "find_image"
  /\ faults < MaxFaults
  /\ faults' = faults + 1
  /\ Exit(1, FALSE)
  /\ UNCHANGED <<provVars, invocations, action, cluster_name, opts, obs>>
  /\ NotMain

\* the instances of a new reservation of n, as indices
NewIndices(all, n) == [k \in 1..n |-> Len(all) + k]

\* line 312
ZoneIsRunAboveOne(num_slaves_this_zone) == num_slaves_this_zone > 1

ZoneIsRun(num_slaves_this_zone) == num_slaves_this_zone > 0

\* lines 310-323, one zone per step
RunSlaves ==
  /\ pc = "run_slaves"
  /\ LET zones == get_zones(opts)
         num_slaves_this_zone == get_partition(opts.slaves, Len(zones), loc.i)
     IN  /\ IF ZoneIsRun(num_slaves_this_zone)
              THEN /\ insts' = RunInstances(insts, num_slaves_this_zone)
                   /\ loc' = [loc EXCEPT
                                !.slave_nodes = @ \o NewIndices(insts, num_slaves_this_zone),
                                !.i = @ + 1]
                   /\ obs' = [obs EXCEPT !.runs = Append(@, num_slaves_this_zone),
                                         !.early = Early(obs, "run")]
              ELSE /\ loc' = [loc EXCEPT !.i = @ + 1]
                   /\ UNCHANGED <<insts, obs>>
         /\ pc' = IF loc.i + 1 = Len(zones) THEN "run_master" ELSE "run_slaves"
  /\ UNCHANGED <<groups, spot_reqs, invocations, faults, action, cluster_name, opts,
                 exit_status, raised>>
  /\ NotMain

\* lines 326-339.  Line 330 replaces opts.zone 'all' by one zone; no later
\* line reads it.
RunMaster ==
  /\ pc = "run_master"
  /\ insts' = RunInstances(insts, 1)
  /\ loc' = [loc EXCEPT !.master_nodes = NewIndices(insts, 1), !.tagged = 0]
  /\ obs' = [obs EXCEPT !.master_runs = @ + 1, !.early = Early(obs, "run")]
  /\ pc' = "tag_slaves"
  /\ UNCHANGED <<groups, spot_reqs, invocations, faults, action, cluster_name, opts,
                 exit_status, raised>>
  /\ NotMain

\* image.run raises: nothing catches it
RunRaises ==
  /\ \/ pc = "run_master"
     \/ /\ pc = "run_slaves"
        /\ ZoneIsRun(get_partition(opts.slaves, Len(get_zones(opts)), loc.i))
  /\ faults < MaxFaults
  /\ faults' = faults + 1
  /\ Exit(1, TRUE)
  /\ UNCHANGED <<provVars, invocations, action, cluster_name, opts, obs>>
  /\ NotMain

\* lines 347-349, one node per step
TagSlave ==
  /\ pc = "tag_slaves"
  /\ loc.tagged < Len(loc.slave_nodes)
  /\ insts' = CreateTags(insts, loc.slave_nodes[loc.tagged + 1], cluster_name, "slave")
  /\ loc' = [loc EXCEPT !.tagged = @ + 1]
  /\ UNCHANGED <<groups, spot_reqs, invocations, faults, action, cluster_name, opts,
                 pc, exit_status, raised, obs>>
  /\ NotMain

RECURSIVE TagAll(_, _, _, _)
TagAll(all, nodes, name, type) ==
  IF nodes = <<>> THEN all
  ELSE TagAll(CreateTags(all, Head(nodes), name, type), Tail(nodes), name, type)

\* lines 351-358, then launch_cluster returns to line 755
TagMasters ==
  /\ pc = "tag_slaves"
  /\ loc.tagged = Len(loc.slave_nodes)
  /\ insts' = TagAll(insts, loc.master_nodes, cluster_name, "master")
  /\ loc' = [loc EXCEPT !.zoo_nodes = <<>>]
  /\ obs' = [obs EXCEPT !.launched = TRUE]
  /\ pc' = "wait_for_cluster"
  /\ UNCHANGED <<groups, spot_reqs, invocations, faults, action, cluster_name, opts,
                 exit_status, raised>>
  /\ NotMain

\* conn.create_tags raises: nothing catches it
TagRaises ==
  /\ pc = "tag_slaves"
  /\ faults < MaxFaults
  /\ faults' = faults + 1
  /\ Exit(1, TRUE)
  /\ UNCHANGED <<provVars, invocations, action, cluster_name, opts, obs>>
  /\ NotMain

(***************************************************************************)
(* The spot path (lines 249-303).  A spot request is [state, inst]: state  *)
(* "open", "active" (inst is the instance it was granted) or "cancelled".  *)
(***************************************************************************)
NewRequests(n) == [k \in 1..n |-> [state |-> "open", inst |-> 0]]

\* line 269: my_req_ids += [req.id for req in slave_reqs]
KeepLastRequests(ids, new) == new

AddRequests(ids, new) == ids \o new

\* lines 257-270, one zone per step: a bid for the zone's partition
RequestSpot ==
  /\ pc = "spot_request"
  /\ LET zones == get_zones(opts)
         num_slaves_this_zone == get_partition(opts.slaves, Len(zones), loc.i)
     IN  /\ spot_reqs' = spot_reqs \o NewRequests(num_slaves_this_zone)
         /\ loc' = [loc EXCEPT
                      !.my_req_ids =
                        AddRequests(@, NewIndices(spot_reqs, num_slaves_this_zone)),
                      !.i = @ + 1]
         /\ obs' = [obs EXCEPT
                      !.bids = Append(@, num_slaves_this_zone),
                      !.early = Early(obs, "bid"),
                      !.batch = @ \o NewIndices(spot_reqs, num_slaves_this_zone)]
         /\ pc' = IF loc.i + 1 = Len(zones) THEN "spot_poll" ELSE "spot_request"
  /\ UNCHANGED <<insts, groups, invocations, faults, action, cluster_name, opts,
                 exit_status, raised>>
  /\ NotMain

\* conn.request_spot_instances raises, outside the try block
RequestSpotRaises ==
  /\ pc = "spot_request"
  /\ faults < MaxFaults
  /\ faults' = faults + 1
  /\ Exit(1, TRUE)
  /\ UNCHANGED <<provVars, invocations, action, cluster_name, opts, obs>>
  /\ NotMain

\* lines 280-283: instance ids of the batch's active requests
RECURSIVE ActiveInstanceIds(_, _)
ActiveInstanceIds(reqs, ids) ==
  IF ids = <<>> THEN <<>>
  ELSE (IF reqs[Head(ids)].state = "active" THEN <<reqs[Head(ids)].inst>> ELSE <<>>)
       \o ActiveInstanceIds(reqs, Tail(ids))

\* conn.get_all_instances(ids): boto sends no filter for an empty id list,
\* and the provider then answers with every instance of the account
GetAllInstances(all, ids) ==
  IF ids = <<>> THEN [k \in 1..Len(all) |-> k] ELSE ids

\* lines 275-293: one iteration of the polling loop
SpotPoll ==
  /\ pc = "spot_poll"
  /\ LET active_instance_ids == ActiveInstanceIds(spot_reqs, loc.my_req_ids)
     IN  /\ obs' = [obs EXCEPT
                      !.granted_seen = Len(active_instance_ids),
                      !.longer = IF Len(active_instance_ids) = opts.slaves
                                   THEN @ ELSE 1 - @]
         /\ IF Len(active_instance_ids) = opts.slaves
              THEN /\ loc' = [loc EXCEPT
                                !.slave_nodes = GetAllInstances(insts, active_instance_ids)]
                   /\ pc' = "run_master"
              ELSE UNCHANGED <<loc, pc>>
  /\ UNCHANGED <<provVars, invocations, faults, action, cluster_name, opts,
                 exit_status, raised>>
  /\ NotMain

CancelRequestsNone(reqs, ids) == reqs

\* conn.cancel_spot_instance_requests(ids): open requests are closed, a
\* request already granted keeps its instance
CancelRequests(reqs, ids) ==
  [k \in 1..Len(reqs) |->
     IF k \in RangeOf(ids) /\ reqs[k].state = "open"
       THEN [reqs[k] EXCEPT !.state = "cancelled"]
       ELSE reqs[k]]

DownCount(all) ==
  Cardinality({k \in 1..Len(all) : all[k].state \in {"shutting-down", "terminated"}})

\* line 303: sys.exit(0)
SpotAbortStatus == 0

\* lines 294-303: anything raised inside the try block (the operator's
\* interrupt, a provider error) ends in the except block
SpotInterrupted ==
  /\ pc = "spot_poll"
  /\ faults < MaxFaults
  /\ faults' = faults + 1
  /\ spot_reqs' = CancelRequests(spot_reqs, loc.my_req_ids)
  /\ LET found == get_existing_cluster(insts, cluster_name)
         running == Len(found.master) + Len(found.slave) + Len(found.zoo)
     IN  obs' = [obs EXCEPT
                   !.interrupted = TRUE,
                   !.cancel_calls = @ + 1,
                   !.cancelled = loc.my_req_ids,
                   !.granted_at_cancel = Len(ActiveInstanceIds(spot_reqs, loc.my_req_ids)),
                   !.warned = running,
                   !.failure = "spot",
                   !.down_at_failure = DownCount(insts)]
  /\ Exit(SpotAbortStatus, FALSE)
  /\ UNCHANGED <<insts, groups, invocations, action, cluster_name, opts>>
  /\ NotMain

(***************************************************************************)
(* After launch_cluster: lines 755-765, and --resume (lines 749-751)       *)
(***************************************************************************)
\* get_existing_cluster(conn, opts, cluster_name) with die_on_error=True
Resume ==
  /\ pc = "resume"
  /\ LET found == get_existing_cluster(insts, cluster_name)
     IN  IF DiscoveryReturns(found, TRUE)
           THEN /\ loc' = [loc EXCEPT !.master_nodes = found.master,
                                      !.slave_nodes = found.slave,
                                      !.zoo_nodes = found.zoo]
                /\ pc' = "setup_cluster"
                /\ UNCHANGED <<exit_status, raised>>
           ELSE Exit(1, FALSE)
  /\ obs' = [obs EXCEPT !.discovered = TRUE]
  /\ UNCHANGED <<provVars, invocations, faults, action, cluster_name, opts>>
  /\ NotMain

NonePendingUnchecked(all, nodes) == TRUE

NonePending(all, nodes) == \A k \in RangeOf(nodes) : all[k].state # "pending"

\* wait_for_cluster: wait_for_instances returns for a list once none of it
\* is pending
WaitForCluster ==
  /\ pc = "wait_for_cluster"
  /\ NonePending(insts, loc.master_nodes)
  /\ NonePending(insts, loc.slave_nodes)
  /\ loc.zoo_nodes # <<>> => NonePending(insts, loc.zoo_nodes)
  /\ pc' = "setup_cluster"
  /\ obs' = [obs EXCEPT !.waited = TRUE]
  /\ UNCHANGED <<provVars, invocations, faults, action, cluster_name, opts,
                 exit_status, raised, loc>>
  /\ NotMain

\* line 157: i.update() asks the provider and raises; nothing catches it
WaitRaises ==
  /\ pc = "wait_for_cluster"
  /\ faults < MaxFaults
  /\ faults' = faults + 1
  /\ Exit(1, TRUE)
  /\ UNCHANGED <<provVars, invocations, action, cluster_name, opts, obs>>
  /\ NotMain

\* setup_cluster: ssh, scp and deploy_files on the master, all succeeding
SetupCluster ==
  /\ pc = "setup_cluster"
  /\ pc' = "wait_for_spark"
  /\ obs' = [obs EXCEPT !.setup_started = TRUE, !.setup_on = StatesOf(insts, loc)]
  /\ UNCHANGED <<provVars, invocations, faults, action, cluster_name, opts,
                 exit_status, raised, loc>>
  /\ NotMain

\* one of them raises CalledProcessError
SetupRaises ==
  /\ pc = "setup_cluster"
  /\ faults < MaxFaults
  /\ faults' = faults + 1
  /\ obs' = [obs EXCEPT !.setup_started = TRUE, !.setup_on = StatesOf(insts, loc)]
  /\ Exit(1, TRUE)
  /\ UNCHANGED <<provVars, invocations, action, cluster_name, opts>>
  /\ NotMain

\* line 761: sys.exit(1)
HealthFailStatusZero == 1 - 1

HealthFailStatus == 1

\* lines 759, 850, 900: if err != 0
HealthNeverFailed(err) == FALSE

HealthFailed(err) == err # 0

\* lines 762, 903: if opts.copy; copy-data copies unconditionally (line 853)
CopiesData(a, o) == a = "copy-data" \/ o.copy

\* lines 758-765, 849-855, 899-906: err is what wait_for_spark_cluster
\* returned (SpecHealth follows it step by step)
WaitForSpark ==
  /\ pc = "wait_for_spark"
  /\ \E err \in {0, -1} :
       IF HealthFailed(err)
         THEN /\ obs' = [obs EXCEPT !.health_err = err,
                                    !.health_on = StatesOf(insts, loc),
                                    !.failure = "health",
                                    !.down_at_failure = DownCount(insts)]
              /\ Exit(HealthFailStatus, FALSE)
         ELSE IF CopiesData(action, opts)
           THEN /\ obs' = [obs EXCEPT !.health_err = err,
                                      !.health_on = StatesOf(insts, loc)]
                /\ pc' = "copy_data"
                /\ UNCHANGED <<exit_status, raised, loc>>
           ELSE /\ obs' = [obs EXCEPT !.health_err = err, !.success_msg = TRUE,
                                      !.health_on = StatesOf(insts, loc)]
                /\ Exit(0, FALSE)
  /\ UNCHANGED <<provVars, invocations, faults, action, cluster_name, opts>>
  /\ NotMain

\* copy_ampcamp_data_from_ebs, then the SUCCESS line
CopyData ==
  /\ pc = "copy_data"
  /\ obs' = [obs EXCEPT !.copy_started = TRUE, !.success_msg = TRUE]
  /\ Exit(0, FALSE)
  /\ UNCHANGED <<provVars, invocations, faults, action, cluster_name, opts>>
  /\ NotMain

\* ssh raises inside wait_for_spark_cluster or the copy
RemoteRaises ==
  /\ pc \in {"wait_for_spark", "copy_data"}
  /\ faults < MaxFaults
  /\ faults' = faults + 1
  /\ obs' = [obs EXCEPT !.copy_started = (pc = "copy_data")]
  /\ Exit(1, TRUE)
  /\ UNCHANGED <<provVars, invocations, action, cluster_name, opts>>
  /\ NotMain

(***************************************************************************)
(* copy-data (lines 846-855), stop (lines 857-878), start (lines 880-906)  *)
(***************************************************************************)
\* line 847: get_existing_cluster(conn, opts, cluster_name)
DiscoverForCopy ==
  /\ pc = "discover_copy"
  /\ LET found == get_existing_cluster(insts, cluster_name)
     IN  IF DiscoveryReturns(found, TRUE)
           THEN /\ loc' = [loc EXCEPT !.master_nodes = found.master,
                                      !.slave_nodes = found.slave,
                                      !.zoo_nodes = found.zoo]
                /\ pc' = "wait_for_spark"
                /\ UNCHANGED <<exit_status, raised>>
           ELSE Exit(1, FALSE)
  /\ UNCHANGED <<provVars, invocations, faults, action, cluster_name, opts, obs>>
  /\ NotMain

\* lines 868, 872, 877, 885, 889, 894
Callable(state) == state \notin {"shutting-down", "terminated"}

CallableNodes(all, nodes) == SelectSeq(nodes, LAMBDA k : Callable(all[k].state))

\* inst.stop(): a running instance starts to stop
StopAll(all, nodes) ==
  [k \in 1..Len(all) |->
     IF k \in RangeOf(nodes) /\ all[k].state = "running"
       THEN [all[k] EXCEPT !.state = "stopping"] ELSE all[k]]

\* inst.start(): a stopped instance is pending again
StartAll(all, nodes) ==
  [k \in 1..Len(all) |->
     IF k \in RangeOf(nodes) /\ all[k].state = "stopped"
       THEN [all[k] EXCEPT !.state = "pending"] ELSE all[k]]

\* lines 775, 863: if response == "y"
ConfirmedWhateverSaid(response) == TRUE

Confirmed(response) == response = "y"

\* lines 858-863: stop always prompts
ConfirmStop ==
  /\ pc = "confirm_stop"
  /\ \E response \in {"y", "n"} :
       /\ obs' = [obs EXCEPT !.prompted = TRUE, !.response = response]
       /\ IF Confirmed(response)
            THEN pc' = "stop_nodes" /\ UNCHANGED <<exit_status, raised, loc>>
            ELSE Exit(0, FALSE)
  /\ UNCHANGED <<provVars, invocations, faults, action, cluster_name, opts>>
  /\ NotMain

\* lines 864-878: discovery, then inst.stop() on the nodes found
StopNodes ==
  /\ pc = "stop_nodes"
  /\ LET found == get_existing_cluster(insts, cluster_name)
         nodes == CallableNodes(insts, found.master \o found.slave \o found.zoo)
     IN  /\ insts' = StopAll(insts, nodes)
         /\ obs' = [obs EXCEPT !.stop_calls = @ + Len(nodes),
                               !.found_nodes = Len(found.master) + Len(found.slave)
                                                 + Len(found.zoo),
                               !.discovered = TRUE]
  /\ Exit(0, FALSE)
  /\ UNCHANGED <<groups, spot_reqs, invocations, faults, action, cluster_name, opts>>
  /\ NotMain

\* lines 881-895: strict discovery, then inst.start() on the nodes found
StartNodes ==
  /\ pc = "start_nodes"
  /\ LET found == get_existing_cluster(insts, cluster_name)
         nodes == CallableNodes(insts, found.slave \o found.master \o found.zoo)
     IN  IF DiscoveryReturns(found, TRUE)
           THEN /\ insts' = StartAll(insts, nodes)
                /\ obs' = [obs EXCEPT !.start_calls = @ + Len(nodes)]
                /\ loc' = [loc EXCEPT !.master_nodes = found.master,
                                      !.slave_nodes = found.slave,
                                      !.zoo_nodes = found.zoo]
                /\ pc' = "wait_for_cluster"
                /\ UNCHANGED <<exit_status, raised>>
           ELSE /\ Exit(1, FALSE)
                /\ UNCHANGED <<insts, obs>>
  /\ UNCHANGED <<groups, spot_reqs, invocations, faults, action, cluster_name, opts>>
  /\ NotMain

(***************************************************************************)
(* destroy (lines 767-829)                                                 *)
(***************************************************************************)
\* lines 768-775: the prompt, unless --destroy-noprompt
Confirm ==
  /\ pc = "confirm"
  /\ \E response \in (IF opts.destroy_noprompt THEN {"y"} ELSE {"y", "n"}) :
       /\ obs' = [obs EXCEPT !.prompted = ~opts.destroy_noprompt,
                             !.response = response]
       /\ IF Confirmed(response)
            THEN pc' = "terminate" /\ UNCHANGED <<exit_status, raised, loc>>
            ELSE Exit(0, FALSE)
  /\ UNCHANGED <<provVars, invocations, faults, action, cluster_name, opts>>
  /\ NotMain

\* lines 776-787: discovery, then inst.terminate() on every node found
Terminate ==
  /\ pc = "terminate"
  /\ LET found == get_existing_cluster(insts, cluster_name)
         nodes == found.master \o found.slave \o found.zoo
     IN  /\ insts' = TerminateAll(insts, nodes)
         /\ obs' = [obs EXCEPT !.terminate_calls = @ + Len(nodes),
                               !.found_nodes = Len(nodes),
                               !.discovered = TRUE]
  /\ IF opts.delete_groups
       THEN /\ pc' = "list_groups"
            /\ loc' = [loc EXCEPT !.attempt = 1]
            /\ UNCHANGED <<exit_status, raised>>
       ELSE Exit(0, FALSE)
  /\ UNCHANGED <<groups, spot_reqs, invocations, faults, action, cluster_name, opts>>
  /\ NotMain

\* line 792
group_names(name) == [k \in 1..3 |-> name \o GroupSuffixes[k]]

RECURSIVE Existing(_, _)
Existing(gs, names) ==
  IF names = <<>> THEN <<>>
  ELSE (IF Head(names) \in DOMAIN gs THEN <<Head(names)>> ELSE <<>>)
       \o Existing(gs, Tail(names))

\* line 795: while attempt <= 3
BudgetNeverEnds(attempt) == TRUE

BudgetLasts(attempt) == attempt <= MaxAttempts

\* lines 795-798: an attempt starts by listing the target groups
ListGroups ==
  /\ pc = "list_groups"
  /\ BudgetLasts(loc.attempt)
  /\ loc' = [loc EXCEPT !.del_groups = Existing(groups, group_names(cluster_name)),
                        !.success = TRUE]
  /\ obs' = [obs EXCEPT !.attempts = @ + 1]
  /\ pc' = "revoke"
  /\ UNCHANGED <<provVars, invocations, faults, action, cluster_name, opts,
                 exit_status, raised>>
  /\ NotMain

\* lines 801-808: group.revoke for every grant of every rule.  For each
\* group with rules the calls either all return True, the rules being gone
\* or (line 821) still there, or one of them returns False.
Revoke ==
  /\ pc = "revoke"
  /\ LET with_rules == {g \in RangeOf(loc.del_groups) : groups[g] # <<>>}
     IN  \E refused \in SUBSET with_rules :
           \E kept \in SUBSET (with_rules \ refused) :
             /\ groups' = [g \in DOMAIN groups |->
                             IF g \in with_rules \ (refused \cup kept)
                               THEN <<>> ELSE groups[g]]
             /\ loc' = [loc EXCEPT !.success = @ /\ (refused = {})]
             /\ obs' = [obs EXCEPT !.revoke_phases = @ + 1,
                                   !.attempt_ok = Append(@, refused = {})]
  /\ pc' = "delete_groups"
  /\ UNCHANGED <<insts, spot_reqs, invocations, faults, action, cluster_name, opts,
                 exit_status, raised>>
  /\ NotMain

\* group.revoke raises EC2ResponseError: nothing catches it
RevokeRaises ==
  /\ pc = "revoke"
  /\ \E g \in RangeOf(loc.del_groups) : groups[g] # <<>>
  /\ faults < MaxFaults
  /\ faults' = faults + 1
  /\ Exit(1, TRUE)
  /\ UNCHANGED <<provVars, invocations, action, cluster_name, opts, obs>>
  /\ NotMain

\* the end of main() after the deletion loop
GroupsFailStatus == 0

\* lines 812-829: delete each listed group; a refused deletion is caught
\* and marks the attempt failed
DeleteGroups ==
  /\ pc = "delete_groups"
  /\ \E deleted \in SUBSET RangeOf(loc.del_groups) :
       LET success == loc.success /\ deleted = RangeOf(loc.del_groups)
           seen == [obs EXCEPT
                      !.delete_calls = @ + Len(loc.del_groups),
                      !.attempt_ok = [@ EXCEPT ![Len(obs.attempt_ok)] =
                                        @ /\ deleted = RangeOf(loc.del_groups)]]
       IN  /\ groups' = [g \in DOMAIN groups \ deleted |-> groups[g]]
           /\ IF success
                THEN Exit(0, FALSE) /\ obs' = seen
                ELSE IF BudgetLasts(loc.attempt + 1)
                  THEN /\ loc' = [loc EXCEPT !.success = FALSE, !.attempt = @ + 1]
                       /\ pc' = "list_groups"
                       /\ obs' = seen
                       /\ UNCHANGED <<exit_status, raised>>
                  ELSE /\ obs' = [seen EXCEPT !.failure = "groups",
                                              !.down_at_failure = DownCount(insts)]
                       /\ Exit(GroupsFailStatus, FALSE)
  /\ UNCHANGED <<insts, spot_reqs, invocations, faults, action, cluster_name, opts>>
  /\ NotMain

(***************************************************************************)
(* The provider's own steps                                                *)
(***************************************************************************)
\* an open spot request is granted: it becomes active with a new instance
GrantSpot ==
  /\ \E id \in 1..Len(spot_reqs) :
       /\ spot_reqs[id].state = "open"
       /\ spot_reqs' = [spot_reqs EXCEPT ![id] = [state |-> "active", inst |-> Len(insts) + 1]]
  /\ insts' = RunInstances(insts, 1)
  /\ UNCHANGED <<groups, procVars>>
  /\ NotMain

\* time passes at the provider: every instance in state a reaches state b.
\* The script reads an instance's state only through is_active and the
\* pending test of wait_for_instances, so the order in which single
\* instances get there is not followed.
Advance(all, a, b) ==
  [k \in 1..Len(all) |->
     IF all[k].state = a THEN [all[k] EXCEPT !.state = b] ELSE all[k]]

\* the pending instances start running
InstanceStarts ==
  /\ \E k \in 1..Len(insts) : insts[k].state = "pending"
  /\ insts' = Advance(insts, "pending", "running")
  /\ UNCHANGED <<groups, spot_reqs, procVars>>
  /\ NotMain

\* the instances that were told to terminate are gone
InstanceGone ==
  /\ \E k \in 1..Len(insts) : insts[k].state = "shutting-down"
  /\ insts' = Advance(insts, "shutting-down", "terminated")
  /\ UNCHANGED <<groups, spot_reqs, procVars>>
  /\ NotMain

\* the instances that were told to stop are stopped
InstanceStops ==
  /\ \E k \in 1..Len(insts) : insts[k].state = "stopping"
  /\ insts' = Advance(insts, "stopping", "stopped")
  /\ UNCHANGED <<groups, spot_reqs, procVars>>
  /\ NotMain

Next ==
  \/ Start
  \/ GetOrMakeGroup \/ CheckGate \/ Authorize \/ AuthorizeRaises
  \/ CheckExisting \/ FindImage \/ FindImageFails
  \/ RunSlaves \/ RunMaster \/ RunRaises
  \/ TagSlave \/ TagMasters \/ TagRaises
  \/ RequestSpot \/ RequestSpotRaises \/ SpotPoll \/ SpotInterrupted
  \/ Resume \/ WaitForCluster \/ WaitRaises \/ SetupCluster \/ SetupRaises
  \/ WaitForSpark \/ CopyData \/ RemoteRaises
  \/ Confirm \/ Terminate \/ ListGroups \/ Revoke \/ RevokeRaises \/ DeleteGroups
  \/ DiscoverForCopy \/ ConfirmStop \/ StopNodes \/ StartNodes
  \/ GrantSpot \/ InstanceStarts \/ InstanceGone \/ InstanceStops

Spec == Init /\ [][Next]_vars

(***************************************************************************)
(* SpecTeardown: destroy invoked, once and again, on an account that holds *)
(* instances already.                                                      *)
(***************************************************************************)
InitTeardown ==
  /\ \E n \in 1..MaxDInst : insts \in [1..n -> InstanceShapes]
  /\ groups = NoGroups /\ spot_reqs = <<>>
  /\ invocations = 0 /\ faults = 0 /\ action = "none" /\ cluster_name = "demo"
  /\ opts = DefaultOpts /\ pc = "idle" /\ exit_status = -1 /\ raised = FALSE
  /\ loc = LocInit /\ obs = ObsInit
  /\ PartIdle
  /\ DiscIdle
  /\ HealthIdle
  /\ ConcIdle
  /\ DeployIdle

\* main() up to line 767, for destroy without --delete-groups
StartDestroy ==
  /\ pc \in {"idle", "done"}
  /\ invocations < MaxInvocations
  /\ invocations' = invocations + 1
  /\ \E name \in ClusterNames, noprompt \in BOOLEAN :
       /\ action' = "destroy"
       /\ cluster_name' = name
       /\ opts' = [DefaultOpts EXCEPT !.destroy_noprompt = noprompt]
       /\ obs' = [ObsInit EXCEPT
                    !.collision = ActiveTagged(insts, name),
                    !.all_down = AllDown(insts, name),
                    !.tagged_before = \E k \in 1..Len(insts) : insts[k].cluster = name,
                    !.prev = Previous]
  /\ pc' = "confirm"
  /\ exit_status' = -1
  /\ raised' = FALSE
  /\ loc' = LocInit
  /\ UNCHANGED <<provVars, faults>>
  /\ NotMain

NextTeardown == StartDestroy \/ Confirm \/ Terminate \/ InstanceGone

SpecTeardown == InitTeardown /\ [][NextTeardown]_vars

(***************************************************************************)
(* SpecSpot: one spot launch, followed up to the end of the polling loop.  *)
(* The script's own steps are weakly fair: the interpreter keeps running   *)
(* the process.  Nothing obliges the provider to grant a bid or the        *)
(* operator to interrupt.                                                  *)
(***************************************************************************)
\* main() entered as `launch --spot-price ...`, without --resume
StartSpot ==
  /\ invocations = 0
  /\ Start
  /\ action' = "launch"
  /\ opts'.spot /\ ~opts'.resume

ScriptSpot ==
  \/ StartSpot \/ GetOrMakeGroup \/ CheckGate \/ Authorize
  \/ CheckExisting \/ FindImage \/ RequestSpot \/ SpotPoll

NextSpot == ScriptSpot \/ SpotInterrupted \/ GrantSpot

SpecSpot == Init /\ [][NextSpot]_vars /\ WF_vars(ScriptSpot)

(***************************************************************************)
(* SpecConcurrent: the invocations of Launches interleave in lines 177-213.*)
(* A step is one get_or_make_group call, one test of a gate, or the        *)
(* authorize calls of one group.                                           *)
(***************************************************************************)
InitConcurrent ==
  /\ ConcIdle
  /\ MainIdle
  /\ PartIdle
  /\ DiscIdle
  /\ HealthIdle
  /\ DeployIdle

NotConc == UNCHANGED <<partVars, discVars, healthVars, deployVars, insts, spot_reqs, procVars>>

\* lines 177-179
ConcGetOrMakeGroup(p) ==
  /\ launches[p].pc = "get_groups"
  /\ LET l == launches[p]
         name == LaunchGroupNames[l.gi]
     IN  /\ groups' = get_or_make_group(groups, name)
         /\ launches' = [launches EXCEPT ![p] =
               [l EXCEPT !.group_rules[l.gi] = groups'[name],
                         !.gi = IF l.gi = 3 THEN 1 ELSE l.gi + 1,
                         !.pc = IF l.gi = 3 THEN "gate" ELSE "get_groups"]]
  /\ NotConc

\* after a group's block: the next gate, or line 215
ConcAfterGroup(l) ==
  IF l.gi = 3 THEN [l EXCEPT !.pc = "done"] ELSE [l EXCEPT !.gi = @ + 1, !.pc = "gate"]

\* lines 180, 195, 206
ConcCheckGate(p) ==
  /\ launches[p].pc = "gate"
  /\ LET l == launches[p]
     IN  launches' = [launches EXCEPT ![p] =
           IF GateOpen(l.group_rules[l.gi])
             THEN [l EXCEPT !.pc = "authorize"]
             ELSE ConcAfterGroup(l)]
  /\ UNCHANGED groups
  /\ NotConc

\* lines 181-194, 196-205, 207-213: the authorize calls of one group
ConcAuthorize(p) ==
  /\ launches[p].pc = "authorize"
  /\ LET l == launches[p]
         name == LaunchGroupNames[l.gi]
     IN  /\ groups' = [groups EXCEPT ![name] = @ \o AuthorizeCalls(l.gi)]
         /\ launches' = [launches EXCEPT ![p] =
               ConcAfterGroup([l EXCEPT !.authorized = @ \cup {l.gi}])]
  /\ NotConc

NextConcurrent ==
  \E p \in Launches : ConcGetOrMakeGroup(p) \/ ConcCheckGate(p) \/ ConcAuthorize(p)

SpecConcurrent == InitConcurrent /\ [][NextConcurrent]_vars

(***************************************************************************)
(* SpecHealth: wait_for_spark_cluster, one check or one ssh run per step   *)
(***************************************************************************)
InitHealth ==
  /\ h_opts \in [instance_type : InstanceTypes, slaves : 0..MaxSlaves]
  /\ h_pc = "first_check" /\ h_err = 0 /\ h_count = 0 /\ h_tries = 0
  /\ h_obs = HealthObsInit
  /\ PartIdle
  /\ DiscIdle
  /\ MainIdle
  /\ ConcIdle
  /\ DeployIdle

NotHealth == UNCHANGED <<partVars, discVars, mainVars, deployVars, concVars>>

Outcome(r) ==
  IF r.raised THEN "raised" ELSE IF r.value = 0 THEN "healthy" ELSE "unhealthy"

Checked(o, answer, r) ==
  [o EXCEPT !.checks = @ + 1,
            !.first = IF @ = "none" THEN Outcome(r) ELSE @,
            !.healthy = IF Outcome(r) = "healthy" THEN @ + 1 ELSE @,
            !.answer = answer.kind,
            !.cores = answer.n,
            !.result = Outcome(r)]

\* line 724 (h_pc = "first_check") and line 732 with 733 (h_pc = "recheck"),
\* followed by the loop test of line 727
Check ==
  /\ h_pc \in {"first_check", "recheck"}
  /\ \E answer \in Answers :
       LET r == check_spark_cluster(answer, h_opts)
           count == IF h_pc = "first_check" THEN 0 ELSE h_count + 1
       IN  /\ h_obs' = Checked(h_obs, answer, r)
           /\ IF r.raised
                THEN h_pc' = "raised" /\ UNCHANGED <<h_err, h_count>>
                ELSE /\ h_err' = r.value
                     /\ h_count' = count
                     /\ h_pc' = IF Loops(r.value, count) THEN "stop" ELSE "returned"
  /\ h_tries' = 0
  /\ UNCHANGED h_opts
  /\ NotHealth

\* lines 729-730: the ssh command runs and succeeds
SshRuns ==
  /\ h_pc \in {"stop", "start"}
  /\ h_pc' = IF h_pc = "stop" THEN "start" ELSE "recheck"
  /\ h_obs' = [h_obs EXCEPT
                 !.stops = IF h_pc = "stop" THEN @ + 1 ELSE @,
                 !.starts = IF h_pc = "start" THEN @ + 1 ELSE @,
                 !.ssh = "returned",
                 !.execs = h_tries + 1,
                 !.pauses = h_tries]
  /\ h_tries' = 0
  /\ UNCHANGED <<h_opts, h_err, h_count>>
  /\ NotHealth

\* lines 700-705: the ssh command fails; retried after a pause, re-raised
\* once tries > 2
SshFails ==
  /\ h_pc \in {"stop", "start"}
  /\ IF GivesUp(h_tries)
       THEN /\ h_pc' = "raised"
            /\ UNCHANGED h_tries
            /\ h_obs' = [h_obs EXCEPT !.ssh = "raised", !.execs = h_tries + 1,
                                      !.pauses = h_tries]
       ELSE /\ h_tries' = h_tries + 1
            /\ UNCHANGED h_pc
            /\ h_obs' = [h_obs EXCEPT !.ssh = "running", !.execs = h_tries + 1,
                                      !.pauses = h_tries + 1]
  /\ UNCHANGED <<h_opts, h_err, h_count>>
  /\ NotHealth

NextHealth == Check \/ SshRuns \/ SshFails

SpecHealth == InitHealth /\ [][NextHealth]_vars

\* C1: for every total >= 0 and zone count z >= 1 the counts get_partition
\* gives the zones 0..z-1 sum to total.
C1_PartitionSum ==
  Len(p_counts) = p_zones => SumSeq(p_counts) = p_total

C1_Witness ==
  /\ p_total = 5 /\ p_zones = 3 /\ p_counts = <<2, 2, 1>>

\* C2: exactly the first (total mod z) zones get one unit more than the
\* others: counts never increase with the zone index and differ by at most 1.
C2_RemainderFirst ==
  /\ \A i \in 1..Len(p_counts) :
       p_counts[i] = (p_total \div p_zones)
                       + (IF i - 1 < p_total % p_zones THEN 1 ELSE 0)
  /\ \A i, j \in 1..Len(p_counts) :
       /\ i <= j => p_counts[i] >= p_counts[j]
       /\ p_counts[i] - p_counts[j] <= 1
  /\ Len(p_counts) = p_zones =>
       Cardinality({i \in 1..p_zones : p_counts[i] = (p_total \div p_zones) + 1})
         = p_total % p_zones

C2_Witness ==
  /\ p_total = 7 /\ p_zones = 4 /\ p_counts = <<2, 2, 2, 1>>

\* C3: every node get_existing_cluster returns, in any role group, is in an
\* active lifecycle state (pending, running, stopping or stopped).
C3_OnlyActiveReturned ==
  d_pc = "returned" =>
    \A role \in Roles : \A k \in 1..Len(d_found[role]) :
      d_insts[d_found[role][k]].state
        \in {"pending", "running", "stopping", "stopped"}

\* main() calls launch_cluster (line 753)
InLaunchCluster == action = "launch" /\ ~opts.resume

\* C4: a launch_cluster on a name that has an active node tagged with it,
\* in any role, requests no capacity (no image.run, no spot bid) and its
\* process ends with exit status 1.
C4_CollisionNoCapacity ==
  (InLaunchCluster /\ obs.collision) =>
    /\ obs.runs = <<>> /\ obs.master_runs = 0 /\ obs.bids = <<>>
    /\ pc = "done" => exit_status = 1

C4_Witness ==
  /\ InLaunchCluster /\ obs.collision /\ pc = "done"
  /\ exit_status = 1 /\ ~raised
  /\ obs.get_or_make = <<1, 1, 1>>

\* C5: a group whose rule set is not empty when the gate is evaluated gets
\* no authorize call in that invocation, and whatever invocations ran, no
\* permission was authorized twice on a group.
C5_AuthorizeOnce ==
  /\ \A gi \in 1..3 : obs.gate[gi] = "nonempty" => obs.auth_calls[gi] = 0
  /\ \A name \in DOMAIN groups : \A k \in 1..Len(groups[name]) :
       Occurrences(groups[name], groups[name][k]) = 1

C5_Witness ==
  /\ invocations = 2 /\ InLaunchCluster /\ pc = "check_existing"
  /\ obs.gate = <<"nonempty", "nonempty", "nonempty">>
  /\ Len(groups["ampcamp3-master"]) = Len(MasterAuthorizeCalls)
  /\ Len(groups["ampcamp3-slaves"]) = Len(SlaveAuthorizeCalls)
  /\ Len(groups["ampcamp3-zoo"]) = Len(ZooAuthorizeCalls)

\* C6: when an on-demand launch_cluster of N workers on a name no node was
\* tagged with has returned, discovery for the name finds exactly the one
\* master and the N workers it launched and no coordinator, and each of the
\* three groups was fetched-or-created exactly once.
C6_LaunchThenDiscover ==
  (InLaunchCluster /\ ~opts.spot /\ ~obs.tagged_before /\ obs.launched
     /\ pc \in {"wait_for_cluster", "setup_cluster", "wait_for_spark", "copy_data"}) =>
    LET found == get_existing_cluster(insts, cluster_name)
    IN  /\ Len(found.master) = 1
        /\ Len(found.slave) = opts.slaves
        /\ found.zoo = <<>>
        /\ found.master = loc.master_nodes
        /\ found.slave = loc.slave_nodes
        /\ \A k \in RangeOf(found.master) \cup RangeOf(found.slave) :
             insts[k].cluster = cluster_name
        /\ obs.get_or_make = <<1, 1, 1>>

C6_Witness ==
  /\ InLaunchCluster /\ ~opts.spot /\ ~obs.tagged_before /\ obs.launched
  /\ pc = "wait_for_cluster"
  /\ opts.slaves = MaxSlaves /\ opts.zone_all
  /\ Len(obs.runs) = NumZones
  /\ Len(get_existing_cluster(insts, cluster_name).slave) = MaxSlaves

\* C7: at every poll of the spot loop the number of granted requests of the
\* batch is at most the number of workers asked for, and when the loop is
\* interrupted cancel is called once, with every request id of the batch.
C7_SpotBatch ==
  /\ obs.granted_seen <= opts.slaves
  /\ obs.interrupted =>
       /\ obs.cancel_calls = 1
       /\ RangeOf(obs.cancelled) = RangeOf(obs.batch)
       /\ Len(obs.cancelled) = Len(obs.batch)
       /\ \A id \in RangeOf(obs.batch) : spot_reqs[id].state # "open"

C7_Witness ==
  /\ obs.interrupted /\ pc = "done"
  /\ Len(obs.batch) = 2 /\ Len(obs.bids) = 2
  /\ obs.granted_seen = 1
  /\ obs.granted_at_cancel = 1

\* C8: when spot polling is interrupted the launcher exits without raising
\* and, whenever instances had been granted to the batch before the cancel,
\* its warning reports their number.
C8_WarnsGranted ==
  (pc = "done" /\ obs.interrupted) =>
    /\ ~raised
    /\ obs.granted_at_cancel > 0 => obs.warned = obs.granted_at_cancel

\* C9 as stated: every convergence failure (spot batch abandoned, health
\* check never healthy, group deletion failing every attempt) ends the
\* process with a non-zero exit status, no instance being terminated by it.
C9_FailureExitsNonZero ==
  (pc = "done" /\ obs.failure # "none") =>
    /\ exit_status # 0
    /\ DownCount(insts) = obs.down_at_failure

\* C9 as amended: a health check that never gets healthy ends the process
\* with exit status 1; an abandoned spot batch and a group deletion that
\* failed every attempt end it with exit status 0; none of the three raises
\* and none terminates an instance.
C9_FailureExitStatus ==
  (pc = "done" /\ obs.failure # "none") =>
    /\ exit_status = (IF obs.failure = "health" THEN 1 ELSE 0)
    /\ ~raised
    /\ DownCount(insts) = obs.down_at_failure

C9_Witness ==
  /\ pc = "done" /\ obs.failure = "groups" /\ exit_status = 0
  /\ action = "destroy" /\ obs.terminate_calls > 0
  /\ DOMAIN groups # {}

\* C10: wait_for_spark_cluster makes at most 10 stop/start cycles whatever
\* the endpoint answers; none when the first check is healthy; it returns 0
\* at the first healthy check; and after the 10th cycle it returns -1.
C10_HealthLoopBounded ==
  /\ h_count <= MaxCycles
  /\ h_obs.stops <= MaxCycles /\ h_obs.starts <= MaxCycles
  /\ h_obs.checks <= MaxCycles + 1
  /\ h_obs.first = "healthy" =>
       /\ h_pc = "returned" /\ h_err = 0
       /\ h_obs.stops = 0 /\ h_obs.starts = 0 /\ h_obs.checks = 1
  /\ h_obs.healthy > 0 =>
       /\ h_pc = "returned" /\ h_err = 0 /\ h_obs.healthy = 1
       /\ h_obs.starts = h_obs.checks - 1
  /\ (h_pc = "returned" /\ h_err # 0) =>
       /\ h_err = -1
       /\ h_count = MaxCycles /\ h_obs.starts = MaxCycles
       /\ h_obs.checks = MaxCycles + 1

C10_Witness ==
  /\ h_pc = "returned" /\ h_err = -1 /\ h_count = MaxCycles
  /\ h_obs.first = "unhealthy" /\ h_obs.starts = MaxCycles

\* C11: a check whose response is not 200, whose request fails, or whose
\* body is not JSON with a numeric cores field ends check_spark_cluster
\* with the unhealthy result -1 and not with an exception; the healthy
\* result is given only when the cores reported equal
\* get_num_cpus(instance_type) * slaves.
C11_BadAnswerIsUnhealthy ==
  /\ h_obs.answer \in {"refused", "http_error", "not_200", "not_json", "no_cores"}
       => h_obs.result = "unhealthy"
  /\ h_obs.result = "healthy" =>
       /\ h_obs.answer = "cores"
       /\ h_obs.cores = get_num_cpus(h_opts.instance_type) * h_opts.slaves

\* C12: when wait_for_spark_cluster returns a failure code to launch,
\* start or copy-data, the process exits with status 1 at once: the seed
\* data copy is not entered and no SUCCESS line is printed.
C12_HealthFailureExits ==
  obs.health_err # 0 =>
    /\ action \in {"launch", "start", "copy-data"}
    /\ pc = "done" /\ exit_status = 1 /\ ~raised
    /\ ~obs.copy_started /\ ~obs.success_msg
    /\ obs.failure = "health"

C12_Witness ==
  /\ action = "start" /\ opts.copy /\ obs.health_err = -1
  /\ pc = "done" /\ exit_status = 1
  /\ obs.start_calls > 0

\* C13: ssh returns at the first execution that succeeds; a failing command
\* is executed again after a pause, at most MaxRetries times, and when the
\* last of these also fails the failure is raised to the caller: a call
\* makes at most MaxRetries + 1 executions.
C13_SshRetriesBounded ==
  /\ h_tries <= MaxRetries
  /\ h_obs.execs <= MaxRetries + 1
  /\ h_obs.ssh = "running" => h_obs.pauses = h_obs.execs /\ h_obs.execs = h_tries
  /\ h_obs.ssh = "returned" => h_obs.pauses = h_obs.execs - 1
  /\ h_obs.ssh = "raised" =>
       /\ h_obs.execs = MaxRetries + 1 /\ h_obs.pauses = MaxRetries
       /\ h_pc = "raised"

C13_Witness ==
  /\ h_obs.ssh = "raised" /\ h_pc = "raised"
  /\ h_obs.execs = MaxRetries + 1 /\ h_obs.stops = 1 /\ h_obs.starts = 0

\* C14: the group deletion of destroy makes at most MaxAttempts attempts,
\* each one listing the target groups, then revoking, then deleting; no
\* attempt follows one in which every revoke and every delete succeeded; a
\* failed attempt is followed by another while the budget lasts; and when
\* the last attempt of the budget fails too, the failure is reported and
\* main ends without an exception.
C14_DeletionAttempts ==
  LET n == obs.attempts
      oks == obs.attempt_ok
      finished == IF pc = "delete_groups" THEN Len(oks) - 1 ELSE Len(oks)
  IN  /\ n <= MaxAttempts
      /\ pc = "revoke" => n > 0 /\ Len(oks) = n - 1
      /\ pc = "delete_groups" => n > 0 /\ Len(oks) = n
      /\ pc \in {"list_groups", "done"} /\ ~raised => Len(oks) = n
      /\ \A k \in 1..(finished - 1) : ~oks[k]
      /\ (pc = "list_groups" /\ n > 0) => ~oks[n] /\ n < MaxAttempts
      /\ (pc = "done" /\ n > 0 /\ ~raised) =>
           /\ exit_status = 0
           /\ \/ oks[n] /\ obs.failure = "none"
              \/ ~oks[n] /\ n = MaxAttempts /\ obs.failure = "groups"

C14_Witness ==
  /\ pc = "done" /\ ~raised /\ action = "destroy"
  /\ obs.attempts = MaxAttempts
  /\ obs.attempt_ok = <<FALSE, FALSE, TRUE>>
  /\ obs.delete_calls > 3

\* C19: destroy and stop make no terminate, stop, revoke or delete call
\* unless response is 'y'; response is 'y' without a prompt only for
\* destroy with --destroy-noprompt; and after any other answer the process
\* ends having made none of these calls.
C19_ConfirmedBeforeDestruction ==
  action \in {"destroy", "stop"} =>
    LET calls == obs.terminate_calls + obs.stop_calls + obs.revoke_phases
                   + obs.delete_calls
    IN  /\ (calls > 0 \/ pc \in {"terminate", "stop_nodes", "list_groups",
                                 "revoke", "delete_groups"})
             => obs.response = "y"
        /\ (obs.response # "none" /\ ~obs.prompted)
             => action = "destroy" /\ opts.destroy_noprompt /\ obs.response = "y"
        /\ obs.response = "n" =>
             /\ obs.prompted /\ calls = 0
             /\ pc = "done" /\ exit_status = 0 /\ ~raised

C19_Witness ==
  /\ action = "stop" /\ obs.response = "n" /\ pc = "done"
  /\ obs.stop_calls = 0
  /\ ActiveTagged(insts, cluster_name)

\* C15: a destroy of a cluster whose nodes are all shutting down or
\* terminated discovers no node and makes no terminate call.
C15_SecondDestroyIsIdle ==
  (action = "destroy" /\ obs.all_down) =>
    /\ obs.found_nodes \in {-1, 0}
    /\ obs.terminate_calls = 0

\* C16: on every way out of deploy_files, the transfer having succeeded or
\* failed, the scratch directory has been removed; and a failed transfer
\* ends deploy_files with the exception.
C16_ScratchAlwaysRemoved ==
  /\ t_pc \in {"returned", "raised"} => t_tmp = "removed"
  /\ t_pc = "raised" => t_out = Render(t_text, t_vars, t_order)

\* C17: with die_on_error the call exits the process with status 1 whenever
\* its master list or its slave list is empty, and returns otherwise;
\* without it the call never exits and returns the three lists, empty or
\* not; in both modes the account is left as it was.
C17_StrictAndPermissive ==
  /\ [](d_pc # "idle" =>
          LET found == get_existing_cluster(d_insts, d_name)
              lacking == found.master = <<>> \/ found.slave = <<>>
          IN  /\ (d_die /\ lacking) => d_pc = "exit" /\ d_exit = 1
              /\ (d_die /\ ~lacking) =>
                   d_pc \in {"returned", "returned_twice"} /\ d_exit = -1
              /\ ~d_die =>
                   /\ d_pc \in {"returned", "returned_twice"} /\ d_exit = -1
                   /\ d_found = found)
  /\ [][d_insts' = d_insts]_vars

C17_Witness ==
  /\ d_pc = "exit" /\ d_die /\ d_exit = 1
  /\ get_existing_cluster(d_insts, d_name).master # <<>>
  /\ get_existing_cluster(d_insts, d_name).slave = <<>>

RECURSIVE Substituted(_, _)
Substituted(text, tvars) ==
  IF text = <<>> THEN <<>>
  ELSE IF \E k \in Keys : StartsWith(text, Pattern(k))
    THEN LET k == CHOOSE key \in Keys : StartsWith(text, Pattern(key))
         IN  tvars[k] \o Substituted(Rest(text, Len(Pattern(k))), tvars)
    ELSE <<Head(text)>> \o Substituted(Tail(text), tvars)

RECURSIVE Occurrences_of(_, _)
Occurrences_of(pat, text) ==
  IF text = <<>> THEN 0
  ELSE (IF StartsWith(text, pat) THEN 1 ELSE 0) + Occurrences_of(pat, Tail(text))

HasPlaceholderOfKey(text) == \E k \in Keys : Occurrences_of(Pattern(k), text) > 0

\* C20: the rendered text is the template text with every {{key}} of the
\* map exchanged for its value, whatever the order the keys are visited in
\* (stated for the templates in which the exchange does not itself put
\* together a new {{key}}); a placeholder of a name that is not in the map
\* is still in the output, and rendering never fails.
C20_RenderSubstitutes ==
  t_pc \in {"rsync", "rmtree", "returned", "raised"} =>
    /\ ~HasPlaceholderOfKey(Substituted(t_text, t_vars))
         => t_out = Substituted(t_text, t_vars)
    /\ Occurrences_of(Pattern("u"), t_out) >= Occurrences_of(Pattern("u"), t_text)
    /\ \A k \in Keys :
         (t_vars[k] # <<>> /\ Occurrences_of(Pattern(k), t_text) > 0)
           => Occurrences_of(t_vars[k], t_out) >= Occurrences_of(Pattern(k), t_text)

C20_Witness ==
  /\ t_pc = "rsync"
  /\ t_text = Pattern("a") \o Pattern("u") \o Pattern("a")
  /\ t_vars["a"] = <<"v">>
  /\ t_order = <<"b", "a">>
  /\ t_out = <<"v">> \o Pattern("u") \o <<"v">>

\* C21: in destroy and stop no provider-mutating call is issued before
\* get_existing_cluster; in launch no instance is requested (image.run or a
\* spot bid) before it, while the security groups are created and their
\* rules authorized ahead of it; and wherever an instance was requested,
\* terminated or stopped, discovery had been consulted.
C21_DiscoveryBeforeInstances ==
  /\ action \in {"destroy", "stop"} => obs.early = {}
  /\ action = "launch" => obs.early \subseteq {"create_group", "authorize"}
  /\ (\/ obs.terminate_calls > 0 \/ obs.stop_calls > 0 \/ obs.runs # <<>>
      \/ obs.master_runs > 0 \/ obs.bids # <<>>) => obs.discovered

C21_Witness ==
  /\ action = "launch"
  /\ obs.discovered
  /\ obs.early = {"create_group", "authorize"}
  /\ obs.master_runs = 1

\* C21 as the specification words it: launch, destroy and stop issue no
\* provider-mutating call at all before discovery
C21_DiscoveryBeforeMutation ==
  action \in {"launch", "destroy", "stop"} => obs.early = {}

\* C22: in a launch without --resume, setup_cluster and the health loop
\* start only after wait_for_cluster returned, on nodes none of which is
\* pending; in a launch with --resume they start without any wait.
C22_SetupAfterWait ==
  (action = "launch" /\ obs.setup_started) =>
    IF opts.resume
      THEN ~obs.waited
      ELSE obs.waited /\ "pending" \notin obs.setup_on /\ "pending" \notin obs.health_on

C22_Witness ==
  /\ action = "launch" /\ ~opts.resume
  /\ obs.waited /\ obs.setup_started
  /\ obs.setup_on = {"running"}
  /\ obs.health_on = {"running"}

\* C22 as the specification words it: every node handed to setup_cluster
\* and to the health loop of a launch is running
C22_SetupOnRunningNodes ==
  (action = "launch" /\ obs.setup_started) =>
    obs.setup_on \subseteq {"running"} /\ obs.health_on \subseteq {"running"}

\* C23: a destroy that follows an on-demand launch of the same name which
\* raised after acquiring instances terminates every one of them (the
\* account held no instance before that launch).
C23_DestroyAfterFailedLaunch ==
  (/\ invocations = 2 /\ action = "destroy" /\ pc = "done" /\ ~raised
   /\ obs.response = "y"
   /\ obs.prev.outcome = "raised" /\ obs.prev.name = cluster_name) =>
    /\ obs.terminate_calls = Len(insts)
    /\ \A k \in 1..Len(insts) : insts[k].state \in {"shutting-down", "terminated"}

\* the partitions of the zones that get one, in zone order
NonZeroPartitions(o) ==
  LET n == Len(get_zones(o))
  IN  SelectSeq([i \in 1..n |-> get_partition(o.slaves, n, i - 1)], LAMBDA c : c > 0)

\* C25: once the on-demand loop is through, the run requests are the
\* non-zero zone partitions in zone order, one request each and none for a
\* zone whose partition is zero, and their counts sum to the worker count;
\* once the spot loop is through, the bids' counts sum to the worker count.
C25_RequestedCountsSum ==
  /\ (action = "launch" /\ ~opts.spot /\ obs.master_runs > 0) =>
       /\ obs.runs = NonZeroPartitions(opts)
       /\ \A k \in 1..Len(obs.runs) : obs.runs[k] > 0
       /\ SumSeq(obs.runs) = opts.slaves
  /\ (action = "launch" /\ opts.spot /\ Len(obs.bids) = Len(get_zones(opts))) =>
       SumSeq(obs.bids) = opts.slaves

C25_Witness ==
  /\ action = "launch" /\ ~opts.spot /\ opts.zone_all
  /\ opts.slaves = 1
  /\ obs.master_runs = 1
  /\ obs.runs = <<1>>

\* C27: once launch_cluster has returned, each of the three groups holds
\* every rule of its authorize calls.
C27_RuleSetsComplete ==
  (action = "launch" /\ obs.launched) =>
    \A gi \in 1..3 :
      /\ LaunchGroupNames[gi] \in DOMAIN groups
      /\ RangeOf(AuthorizeCalls(gi)) \subseteq RangeOf(groups[LaunchGroupNames[gi]])

\* C28: a destroy with group deletion that succeeded, right after a launch
\* of the same cluster name, targeted the groups that launch had fetched or
\* created, and none of them is left.
C28_DestroyRemovesLaunchGroups ==
  (/\ action = "destroy" /\ opts.delete_groups /\ pc = "done" /\ ~raised
   /\ obs.response = "y" /\ obs.failure = "none" /\ obs.attempts > 0
   /\ obs.prev.outcome = "returned" /\ obs.prev.name = cluster_name) =>
    /\ RangeOf(group_names(cluster_name)) = RangeOf(LaunchGroupNames)
    /\ \A gi \in 1..3 : LaunchGroupNames[gi] \notin DOMAIN groups

\* C24: the polling loop of a spot launch is left in one of two ways only:
\* by a poll that finds every request of the batch active, or through the
\* except block (an interrupt or an error inside the loop), which cancels
\* the batch as a whole, leaves none of its requests open and ends the
\* process.  No count of polls ends it.
C24_PollingEndsByGrantOrInterrupt ==
  (/\ action = "launch" /\ opts.spot
   /\ Len(obs.bids) = Len(get_zones(opts)) /\ pc # "spot_poll") =>
    \/ /\ ~obs.interrupted
       /\ obs.granted_seen = opts.slaves
       /\ \A id \in RangeOf(obs.batch) : spot_reqs[id].state = "active"
    \/ /\ obs.interrupted
       /\ obs.cancel_calls = 1 /\ obs.cancelled = obs.batch
       /\ \A id \in RangeOf(obs.batch) : spot_reqs[id].state # "open"
       /\ pc = "done"

C24_Witness ==
  /\ action = "launch" /\ opts.spot /\ opts.slaves = 2
  /\ pc = "done"
  /\ obs.interrupted
  /\ obs.granted_at_cancel = 1
  /\ \E id \in RangeOf(obs.batch) : spot_reqs[id].state = "cancelled"

\* C24 as the specification words it: the polling loop is always left
C24_PollingEnds == (pc = "spot_poll") ~> (pc # "spot_poll")

\* C26: with launch invocations running at the same time, the gate lets an
\* invocation authorize a group exactly when the rule set it had fetched
\* was empty, whatever the other invocations did since: every rule of a
\* group was authorized once by each invocation that issued the group's
\* calls, which can be more than one invocation.
C26_GateIsPerInvocation ==
  /\ \A p \in Launches : \A gi \in launches[p].authorized :
       launches[p].group_rules[gi] = <<>>
  /\ \A gi \in 1..3 :
       LaunchGroupNames[gi] \in DOMAIN groups =>
         \A r \in RangeOf(AuthorizeCalls(gi)) :
           Occurrences(groups[LaunchGroupNames[gi]], r) =
             Cardinality({p \in Launches : gi \in launches[p].authorized})

\* two invocations saw the master group's rule set empty and both issued
\* its authorize calls
C26_Witness ==
  /\ launches[1].group_rules[1] = <<>> /\ launches[2].group_rules[1] = <<>>
  /\ 1 \in launches[1].authorized /\ 1 \in launches[2].authorized
  /\ Len(groups[LaunchGroupNames[1]]) = 2 * Len(AuthorizeCalls(1))
====
